---- MODULE Spec2Model ----
(***************************************************************************)
(* The world-structure editor of dungeon_maze (editor/src): the chunk and  *)
(* cell data model, the layout pass of WorldStructureEditor and the        *)
(* handlers it installs, each as one action.                               *)
(***************************************************************************)
EXTENDS Integers, Sequences, FiniteSets, TLC

VARIABLES worldStructure, chunkY, name, op, steps, loads, loadCount, saved, disk,
          installed, dragging, position, listeners, scale, active, styleScale

vars ==
    <<worldStructure, chunkY, name, op, steps, loads, loadCount, saved, disk,
      installed, dragging, position, listeners, scale, active, styleScale>>

\* the state of useShiftDragger and of useScrollScaler
dragVars == <<dragging, position, listeners>>

zoomVars == <<scale, active, styleScale>>

(***************************************************************************)
(* Bounds of the model.                                                    *)
(***************************************************************************)
\* largest |x| and |z| an insertion may produce
MaxCoord == 2
\* largest |y| an insertion may produce
MaxY == 1
\* longest chunk list
MaxChunks == 3
\* number of handler calls in one session
MaxSteps == 4
\* longest chunk list of a document installed from outside (SpecLoaded)
MaxDocLen == 3
\* number of clicks on Load From File (SpecFiles)
MaxLoads == 1
\* largest clientX and clientY of a mouse event (SpecDrag)
MaxMouse == 1
\* largest |top| and |left| of the pan position (SpecDrag)
MaxPos == 1
\* most mousemove listeners on document at a time (SpecDrag)
MaxListeners == 2
\* most steps of 0.1 the zoom scale may be away from 1 (SpecZoom)
MaxZoom == 3

(***************************************************************************)
(* lib/types: enums, Cell, Chunk, WorldStructure.                          *)
(***************************************************************************)
CellWall == {"None", "Solid", "SolidWithDoorGap", "SolidWithWindowGap"}

CellSpecial == {"None", "Chair", "TreasureChest", "Staircase", "Stairs"}

Side == {"Top", "Bottom", "Left", "Right"}

\* the side length of a chunk's cell grid
ChunkDim == 4

newCell ==
    [wall_top |-> "None", wall_bottom |-> "None", wall_left |-> "None",
     wall_right |-> "None", floor |-> "None", ceiling |-> "None",
     door_top |-> FALSE, door_bottom |-> FALSE, door_left |-> FALSE,
     door_right |-> FALSE, window_top |-> FALSE, window_bottom |-> FALSE,
     window_left |-> FALSE, window_right |-> FALSE, special |-> "None"]

(***************************************************************************)
(* A chunk's cells are JavaScript arrays of objects, and two slots may     *)
(* hold the same array or the same cell object.  A chunk therefore carries *)
(* its own object graph: cells[i] is the identity of the row array in slot *)
(* i, heapRows[r] the row array r (a sequence of cell identities) and      *)
(* heapCells[c] the cell object c.  Identities are numbered in order of    *)
(* first occurrence, and objects no slot reaches are dropped.              *)
(***************************************************************************)
RECURSIVE Dedup(_)
Dedup(s) ==
    IF s = <<>> THEN <<>>
    ELSE LET r == Dedup(SubSeq(s, 1, Len(s) - 1))
             e == s[Len(s)]
         IN  IF \E i \in 1..Len(r) : r[i] = e THEN r ELSE Append(r, e)

IndexOf(s, e) == CHOOSE i \in 1..Len(s) : s[i] = e

RECURSIVE Flatten(_)
Flatten(ss) ==
    IF ss = <<>> THEN <<>> ELSE Head(ss) \o Flatten(Tail(ss))

Normalize(cells, rows, objs) ==
    LET rord == Dedup(cells)
        cord == Dedup(Flatten([k \in 1..Len(rord) |-> rows[rord[k]]]))
    IN  [cells |-> [i \in 1..Len(cells) |-> IndexOf(rord, cells[i])],
         heapRows |-> [k \in 1..Len(rord) |->
                         [j \in 1..Len(rows[rord[k]]) |->
                             IndexOf(cord, rows[rord[k]][j])]],
         heapCells |-> [k \in 1..Len(cord) |-> objs[cord[k]]]]

\* the cell value read as ch.cells[cz][cx]
CellAt(ch, cz, cx) == ch.heapCells[ch.heapRows[ch.cells[cz]][cx]]

\* the cells of a chunk by value: what JSON.stringify or a reader sees
Grid(ch) ==
    [cz \in 1..Len(ch.cells) |->
        [cx \in 1..Len(ch.heapRows[ch.cells[cz]]) |-> CellAt(ch, cz, cx)]]

\* a chunk by value
ChunkVal(ch) ==
    [x |-> ch.x, y |-> ch.y, z |-> ch.z, cells |-> Grid(ch),
     world_structure |-> ch.world_structure]

\* a chunk whose cells are the value grid g, no two slots sharing an object
FromGrid(x, y, z, g, w) ==
    LET offs == [i \in 1..Len(g) |->
                    Len(Flatten([k \in 1..(i - 1) |-> g[k]]))]
    IN  [x |-> x, y |-> y, z |-> z,
         cells |-> [i \in 1..Len(g) |-> i],
         heapRows |-> [i \in 1..Len(g) |-> [j \in 1..Len(g[i]) |-> offs[i] + j]],
         heapCells |-> Flatten(g),
         world_structure |-> w]

newWorldStructure == [chunks |-> <<>>]

\* a constructor whose cells array has three rows
newChunkThreeRows(x, y, z) ==
    [x |-> x, y |-> y, z |-> z,
     cells |-> [i \in 1..(ChunkDim - 1) |-> 1],
     heapRows |-> << [j \in 1..ChunkDim |-> 1] >>,
     heapCells |-> << newCell >>,
     world_structure |-> "None"]

\* a constructor that takes its arguments as (z, y, x)
newChunkSwapXZ(x, y, z) ==
    [x |-> z, y |-> y, z |-> x,
     cells |-> [i \in 1..ChunkDim |-> 1],
     heapRows |-> << [j \in 1..ChunkDim |-> 1] >>,
     heapCells |-> << newCell >>,
     world_structure |-> "None"]

\* new Array(4).fill(new Array(4).fill(newCell())): one cell object, one row
\* array holding it four times, and a cells array holding that row four times
newChunk(x, y, z) ==
    [x |-> x, y |-> y, z |-> z,
     cells |-> [i \in 1..ChunkDim |-> 1],
     heapRows |-> << [j \in 1..ChunkDim |-> 1] >>,
     heapCells |-> << newCell >>,
     world_structure |-> "None"]

(***************************************************************************)
(* The layout pass of WorldStructureEditor.                                *)
(***************************************************************************)
Abs(n) == IF n < 0 THEN -n ELSE n

\* a reducer that looks at z only
RadiusStepZOnly(acc, curr) ==
    IF Abs(curr.z) > acc THEN Abs(curr.z) ELSE acc

\* the reducer of calcXZRadius: both tests compare with acc, the second
\* assignment overwrites the first
RadiusStep(acc, curr) ==
    LET absX == Abs(curr.x)
        max1 == IF absX > acc THEN absX ELSE acc
        absZ == Abs(curr.z)
        max2 == IF absZ > acc THEN absZ ELSE max1
    IN  max2

RECURSIVE Reduce(_, _)
Reduce(s, acc) ==
    IF s = <<>> THEN acc ELSE Reduce(Tail(s), RadiusStep(acc, Head(s)))

calcXZRadius(ws) == Reduce(ws.chunks, 0)

\* a lookup that forgets the layer
FindIndexAnyY(s, x, y, z) ==
    LET hits == {i \in 1..Len(s) : s[i].x = x /\ s[i].z = z}
    IN  IF hits = {} THEN 0 ELSE CHOOSE i \in hits : \A j \in hits : i <= j

\* Array.prototype.find: the first element that matches, or undefined (0 here)
FindIndex(s, x, y, z) ==
    LET hits == {i \in 1..Len(s) : s[i].x = x /\ s[i].y = y /\ s[i].z = z}
    IN  IF hits = {} THEN 0 ELSE CHOOSE i \in hits : \A j \in hits : i <= j

\* one slot of the window: the chunk found, or the DummyChunk {x, z}
Slot(ws, y, x, z) ==
    LET i == FindIndex(ws.chunks, x, y, z)
    IN  IF i = 0 THEN [x |-> x, z |-> z] ELSE ws.chunks[i]

\* the matrix `chunks` of the layout pass: rows by z, columns by x
Window(ws, y, r) ==
    [zi \in 1..(2 * r + 1) |->
        [xi \in 1..(2 * r + 1) |-> Slot(ws, y, xi - r - 1, zi - r - 1)]]

\* "cells" in chunk
IsChunk(slot) == "cells" \in DOMAIN slot

\* a loop body without the else branch
YRangeStepLeastOnly(acc, chunk) ==
    IF chunk.y < acc.leastY THEN [acc EXCEPT !.leastY = chunk.y] ELSE acc

\* the loop over the chunks that sets leastY and greatestY
YRangeStep(acc, chunk) ==
    IF chunk.y < acc.leastY THEN [acc EXCEPT !.leastY = chunk.y]
    ELSE IF chunk.y > acc.greatestY THEN [acc EXCEPT !.greatestY = chunk.y]
    ELSE acc

RECURSIVE YRangeLoop(_, _)
YRangeLoop(s, acc) ==
    IF s = <<>> THEN acc ELSE YRangeLoop(Tail(s), YRangeStep(acc, Head(s)))

YRange(ws) == YRangeLoop(ws.chunks, [leastY |-> 0, greatestY |-> 0])

\* lib/utils arrFromIncr
RECURSIVE ArrWhile(_, _, _, _)
ArrWhile(arr, next, end, incr) ==
    IF next < end THEN ArrWhile(Append(arr, next), next + incr, end, incr)
    ELSE arr

arrFromIncr(start, end, incr) ==
    IF start = end THEN <<start>>
    ELSE Append(ArrWhile(<<start>>, start + incr, end, incr), end)

\* the values of the layout pass in the current state
xzRadius == calcXZRadius(worldStructure)

chunks == Window(worldStructure, chunkY, xzRadius)

leastY == YRange(worldStructure).leastY

greatestY == YRange(worldStructure).greatestY

yChoices == arrFromIncr(leastY, greatestY, 1)

(***************************************************************************)
(* CellSection: the cell a menu item hands to onChange.                    *)
(***************************************************************************)
getCellWallProp(side) ==
    CASE side = "Top" -> "wall_top"
      [] side = "Bottom" -> "wall_bottom"
      [] side = "Left" -> "wall_left"
      [] side = "Right" -> "wall_right"

getCellDoorProp(side) ==
    CASE side = "Top" -> "door_top"
      [] side = "Bottom" -> "door_bottom"
      [] side = "Left" -> "door_left"
      [] side = "Right" -> "door_right"

getCellWindowProp(side) ==
    CASE side = "Top" -> "window_top"
      [] side = "Bottom" -> "window_bottom"
      [] side = "Left" -> "window_left"
      [] side = "Right" -> "window_right"

\* the menu items of one cell: e.item names the item, e.side the WallSection
\* it belongs to, e.val the enum value of a sub-menu item
CellEdits ==
    {[item |-> i, side |-> "Top", val |-> "None"] : i \in {"Ceiling", "Floor"}}
    \cup {[item |-> "Special", side |-> "Top", val |-> v] : v \in CellSpecial}
    \cup {[item |-> "Wall", side |-> s, val |-> v] : s \in Side, v \in CellWall}
    \cup {[item |-> i, side |-> s, val |-> "None"] :
            i \in {"Door", "Window"}, s \in Side}

\* a menu whose Door and Window items do nothing on a side without a wall
EditedCellWalled(cell, e) ==
    CASE e.item = "Ceiling" ->
            [cell EXCEPT !.ceiling = IF cell.ceiling = "Solid" THEN "None" ELSE "Solid"]
      [] e.item = "Floor" ->
            [cell EXCEPT !.floor = IF cell.floor = "Solid" THEN "None" ELSE "Solid"]
      [] e.item = "Special" -> [cell EXCEPT !.special = e.val]
      [] e.item = "Wall" -> [cell EXCEPT ![getCellWallProp(e.side)] = e.val]
      [] e.item = "Door" ->
            IF cell[getCellWallProp(e.side)] = "None" THEN cell
            ELSE [cell EXCEPT ![getCellDoorProp(e.side)] = ~cell[getCellDoorProp(e.side)]]
      [] e.item = "Window" ->
            IF cell[getCellWallProp(e.side)] = "None" THEN cell
            ELSE [cell EXCEPT ![getCellWindowProp(e.side)] = ~cell[getCellWindowProp(e.side)]]

\* { ...cell, <one property> }
EditedCell(cell, e) ==
    CASE e.item = "Ceiling" ->
            [cell EXCEPT !.ceiling = IF cell.ceiling = "Solid" THEN "None" ELSE "Solid"]
      [] e.item = "Floor" ->
            [cell EXCEPT !.floor = IF cell.floor = "Solid" THEN "None" ELSE "Solid"]
      [] e.item = "Special" -> [cell EXCEPT !.special = e.val]
      [] e.item = "Wall" -> [cell EXCEPT ![getCellWallProp(e.side)] = e.val]
      [] e.item = "Door" ->
            [cell EXCEPT ![getCellDoorProp(e.side)] = ~cell[getCellDoorProp(e.side)]]
      [] e.item = "Window" ->
            [cell EXCEPT ![getCellWindowProp(e.side)] = ~cell[getCellWindowProp(e.side)]]

(***************************************************************************)
(* ChunkSection: the chunk a cell edit or a fill hands to onChange.        *)
(***************************************************************************)
\* an edit that keeps the edited row only
ReplaceCellRowOnly(chunk, cellZ, cellX, nc) ==
    FromGrid(chunk.x, chunk.y, chunk.z,
             << [cx \in 1..Len(chunk.heapRows[chunk.cells[cellZ]]) |->
                    IF cx = cellX THEN nc ELSE CellAt(chunk, cellZ, cx)] >>,
             chunk.world_structure)

\* the row array rw.map((c, cx) => cx === cellX ? newCell : c) put in slot
\* cellZ of a new cells array; the other slots keep their row arrays
ReplaceCell(chunk, cellZ, cellX, nc) ==
    LET rw == chunk.heapRows[chunk.cells[cellZ]]
        newId == Len(chunk.heapCells) + 1
        newRow == [cx \in 1..Len(rw) |-> IF cx = cellX THEN newId ELSE rw[cx]]
        rowId == Len(chunk.heapRows) + 1
        g == Normalize(
                [cz \in 1..Len(chunk.cells) |->
                    IF cz = cellZ THEN rowId ELSE chunk.cells[cz]],
                Append(chunk.heapRows, newRow),
                Append(chunk.heapCells, nc))
    IN  [chunk EXCEPT !.cells = g.cells, !.heapRows = g.heapRows,
                      !.heapCells = g.heapCells]

\* the fills of the chunk menu: the properties a fill sets on every cell
ChunkFills ==
    {[item |-> "Walls", val |-> v] : v \in CellWall}
    \cup {[item |-> "Special", val |-> v] : v \in CellSpecial}
    \cup {[item |-> i, val |-> v] : i \in {"Ceilings", "Floors"}, v \in {"None", "Solid"}}

FilledCell(c, f) ==
    CASE f.item = "Walls" ->
            [c EXCEPT !.wall_top = f.val, !.wall_bottom = f.val,
                      !.wall_left = f.val, !.wall_right = f.val]
      [] f.item = "Special" -> [c EXCEPT !.special = f.val]
      [] f.item = "Ceilings" -> [c EXCEPT !.ceiling = f.val]
      [] f.item = "Floors" -> [c EXCEPT !.floor = f.val]

HeadingFills == {"AllCeilings", "ClearCeilings", "AllFloored", "ClearFloored"}

\* the newCellFunc a heading item passes to handleChunkUpdate
HeadingCell(c, item) ==
    CASE item = "AllCeilings" -> [c EXCEPT !.ceiling = "Solid"]
      [] item = "ClearCeilings" -> [c EXCEPT !.ceiling = "None"]
      [] item = "AllFloored" -> [c EXCEPT !.floor = "Solid"]
      [] item = "ClearFloored" -> [c EXCEPT !.floor = "None"]

\* the arrow function (c) => ({ ...c, ... }) of the menu item f, applied to c
CellFunc(f, c) ==
    IF f.item \in HeadingFills THEN HeadingCell(c, f.item) ELSE FilledCell(c, f)

\* { ...ch, cells: ch.cells.map((row) => row.map(f)) }: every slot gets a new
\* row array of new cell objects
MapCells(ch, f) ==
    FromGrid(ch.x, ch.y, ch.z,
             [cz \in 1..Len(ch.cells) |->
                [cx \in 1..Len(ch.heapRows[ch.cells[cz]]) |->
                    CellFunc(f, CellAt(ch, cz, cx))]],
             ch.world_structure)

(***************************************************************************)
(* WorldStructureEditor: the structures its handlers hand to               *)
(* setWorldStructure.                                                      *)
(***************************************************************************)
SameCoord(a, b) == a.x = b.x /\ a.y = b.y /\ a.z = b.z

\* ChunkSection onChange: replace by coordinate
ReplaceChunk(ws, nch) ==
    [ws EXCEPT !.chunks =
        [i \in 1..Len(ws.chunks) |->
            IF SameCoord(ws.chunks[i], nch) THEN nch ELSE ws.chunks[i]]]

\* a delete that removes the chunks of every layer at (x, z)
DeleteChunkAnyY(ws, chunk) ==
    LET keep(ch) == ch.x # chunk.x \/ ch.z # chunk.z
    IN  [ws EXCEPT !.chunks = SelectSeq(ws.chunks, keep)]

\* onDeleteIntent
DeleteChunk(ws, chunk) ==
    LET keep(ch) == ch.x # chunk.x \/ ch.y # chunk.y \/ ch.z # chunk.z
    IN  [ws EXCEPT !.chunks = SelectSeq(ws.chunks, keep)]

\* onOriginChunkChangeIntent
SetOrigin(ws, chunk, nm) ==
    [ws EXCEPT !.chunks =
        [i \in 1..Len(ws.chunks) |->
            [ws.chunks[i] EXCEPT !.world_structure =
                IF SameCoord(ws.chunks[i], chunk) THEN nm ELSE "None"]]]

\* the chunkPredicate of a heading: (ch) => ch.x === chunk.x, or the same on z
chunkPredicate(p, ch) == IF p.by = "x" THEN ch.x = p.at ELSE ch.z = p.at

\* an update that maps the chunks of the layer shown only
handleChunkUpdateShown(ws, p, newCellFunc) ==
    [ws EXCEPT !.chunks =
        [i \in 1..Len(ws.chunks) |->
            IF chunkPredicate(p, ws.chunks[i]) /\ ws.chunks[i].y = chunkY
            THEN MapCells(ws.chunks[i], newCellFunc)
            ELSE ws.chunks[i]]]

\* an update that maps every chunk
handleChunkUpdateAll(ws, p, newCellFunc) ==
    [ws EXCEPT !.chunks =
        [i \in 1..Len(ws.chunks) |-> MapCells(ws.chunks[i], newCellFunc)]]

\* handleChunkUpdate(chunkPredicate, newCellFunc)
handleChunkUpdate(ws, p, newCellFunc) ==
    [ws EXCEPT !.chunks =
        [i \in 1..Len(ws.chunks) |->
            IF chunkPredicate(p, ws.chunks[i])
            THEN MapCells(ws.chunks[i], newCellFunc)
            ELSE ws.chunks[i]]]

\* the heading's Clear item: the chunks the predicate rejects
ClearChunks(ws, p) ==
    LET keep(ch) == ~chunkPredicate(p, ch)
    IN  [ws EXCEPT !.chunks = SelectSeq(ws.chunks, keep)]

\* the sequence s without its k-th element
RemoveAt(s, k) == SubSeq(s, 1, k - 1) \o SubSeq(s, k + 1, Len(s))

\* chunks: [newChunk(..)] without the spread
PrependAlone(ws, ch) == [ws EXCEPT !.chunks = <<ch>>]

\* chunks: [newChunk(..), ...worldStructure.chunks]
Prepend(ws, ch) == [ws EXCEPT !.chunks = <<ch>> \o ws.chunks]

\* chunks: [...worldStructure.chunks, newChunk(..)]
AppendChunk(ws, ch) == [ws EXCEPT !.chunks = Append(ws.chunks, ch)]

(***************************************************************************)
(* The session.  op records the handler that ran last and what it was      *)
(* called on: the coordinates of the window slot (x, y, z), the cell       *)
(* (cz, cx) and the menu item e.                                           *)
(***************************************************************************)
NoArg == [item |-> "None", side |-> "Top", val |-> "None"]

Op(kind, x, y, z, cz, cx, e) ==
    [kind |-> kind, x |-> x, y |-> y, z |-> z, cz |-> cz, cx |-> cx, e |-> e]

\* the cells and menu items the session's edits are drawn from
EditCells == {<<1, 1>>, <<3, 2>>}

SessionEdits ==
    {[item |-> "Ceiling", side |-> "Top", val |-> "None"],
     [item |-> "Special", side |-> "Top", val |-> "Chair"],
     [item |-> "Wall", side |-> "Left", val |-> "Solid"],
     [item |-> "Door", side |-> "Top", val |-> "None"]}

SessionFills ==
    {[item |-> "Walls", val |-> "Solid"],
     [item |-> "Special", val |-> "Stairs"],
     [item |-> "Ceilings", val |-> "Solid"],
     [item |-> "Floors", val |-> "Solid"]}

SessionHeadingFills == {"ClearCeilings", "AllFloored"}

InBounds(ch) ==
    Abs(ch.x) <= MaxCoord /\ Abs(ch.z) <= MaxCoord /\ Abs(ch.y) <= MaxY

CanInsert(ch) == Len(worldStructure.chunks) < MaxChunks /\ InBounds(ch)

\* the indices of the window's rows and columns
WinIdx == 1..(2 * xzRadius + 1)

WinLast == 2 * xzRadius + 1

\* chunks[zi][xi]
WinSlot(zi, xi) ==
    Slot(worldStructure, chunkY, xi - xzRadius - 1, zi - xzRadius - 1)

\* style.scale before the hook has written it
NoStyle == ""

\* the first render of the two hooks: useState(false), useState({top: 0,
\* left: 0}), useState(1) (the scale is counted in tenths), useState(false),
\* and no listener on document for mousemove and mouseup
InitView ==
    /\ dragging = FALSE
    /\ position = [top |-> 0, left |-> 0]
    /\ listeners = <<>>
    /\ scale = 10
    /\ active = FALSE
    /\ styleScale = NoStyle

\* nothing has been handed to the browser for download
NoSave == [name |-> "", text |-> [json |-> FALSE]]

\* setWorldStructure(ws) by the handler `kind`
Handler(ws, o) ==
    /\ steps < MaxSteps
    /\ steps' = steps + 1
    /\ worldStructure' = ws
    /\ op' = o
    /\ UNCHANGED <<chunkY, name, loads, loadCount, saved, disk, installed>>
    /\ UNCHANGED <<dragVars, zoomVars>>

Init ==
    /\ worldStructure = newWorldStructure
    /\ chunkY = 0
    /\ name = ""
    /\ op = Op("Init", 0, 0, 0, 0, 0, NoArg)
    /\ steps = 0
    /\ loads = <<>>
    /\ loadCount = 0
    /\ saved = NoSave
    /\ disk = {}
    /\ installed = 0
    /\ InitView

\* handleChange: the value of a SelectItem, one of yChoices
handleChange ==
    \E i \in 1..Len(yChoices) :
        /\ steps < MaxSteps
        /\ steps' = steps + 1
        /\ chunkY' = yChoices[i]
        /\ op' = Op("handleChange", 0, yChoices[i], 0, 0, 0, NoArg)
        /\ UNCHANGED <<worldStructure, name, loads, loadCount, saved, disk, installed>>
        /\ UNCHANGED <<dragVars, zoomVars>>

ExtendMinusY ==
    /\ steps < MaxSteps
    /\ LET ch == newChunk(0, leastY - 1, 0)
       IN  /\ CanInsert(ch)
           /\ Handler(Prepend(worldStructure, ch),
                      Op("ExtendMinusY", 0, 0, 0, 0, 0, NoArg))

ExtendPlusY ==
    /\ steps < MaxSteps
    /\ LET ch == newChunk(0, greatestY + 1, 0)
       IN  /\ CanInsert(ch)
           /\ Handler(AppendChunk(worldStructure, ch),
                      Op("ExtendPlusY", 0, 0, 0, 0, 0, NoArg))

\* a CellSection menu item of the cell (cellZ, cellX) of a chunk of the window
CellOnChange ==
    /\ steps < MaxSteps
    /\ \E zi \in WinIdx, xi \in WinIdx, pos \in EditCells, e \in SessionEdits :
           LET chunk == WinSlot(zi, xi)
               nch == ReplaceCell(chunk, pos[1], pos[2],
                                  EditedCell(CellAt(chunk, pos[1], pos[2]), e))
           IN  /\ IsChunk(chunk)
               /\ Handler(ReplaceChunk(worldStructure, nch),
                          Op("CellOnChange", chunk.x, chunk.y, chunk.z, pos[1], pos[2],
                             e))

\* a Fill item of the chunk menu
ChunkFill ==
    /\ steps < MaxSteps
    /\ \E zi \in WinIdx, xi \in WinIdx, f \in SessionFills :
           LET chunk == WinSlot(zi, xi)
           IN  /\ IsChunk(chunk)
               /\ Handler(ReplaceChunk(worldStructure, MapCells(chunk, f)),
                          Op("ChunkFill", chunk.x, chunk.y, chunk.z, 0, 0,
                             [item |-> f.item, side |-> "Top", val |-> f.val]))

onDeleteIntent ==
    /\ steps < MaxSteps
    /\ \E zi \in WinIdx, xi \in WinIdx :
           LET chunk == WinSlot(zi, xi)
           IN  /\ IsChunk(chunk)
               /\ Handler(DeleteChunk(worldStructure, chunk),
                          Op("onDeleteIntent", chunk.x, chunk.y, chunk.z, 0, 0, NoArg))

onOriginChunkChangeIntent ==
    /\ steps < MaxSteps
    /\ \E zi \in WinIdx, xi \in WinIdx :
           LET chunk == WinSlot(zi, xi)
           IN  /\ IsChunk(chunk)
               /\ Handler(SetOrigin(worldStructure, chunk, name),
                          Op("onOriginChunkChangeIntent", chunk.x, chunk.y, chunk.z,
                             0, 0, NoArg))

\* DummyChunkSection onClick
DummyOnClick ==
    /\ steps < MaxSteps
    /\ \E zi \in WinIdx, xi \in WinIdx :
           LET chunk == WinSlot(zi, xi)
               ch == newChunk(chunk.x, chunkY, chunk.z)
           IN  /\ ~IsChunk(chunk)
               /\ CanInsert(ch)
               /\ Handler(AppendChunk(worldStructure, ch),
                          Op("DummyOnClick", chunk.x, chunkY, chunk.z, 0, 0, NoArg))

\* the column headings sit on the slots with z = xzRadius or z = -xzRadius
ColClear ==
    /\ steps < MaxSteps
    /\ \E xi \in WinIdx :
           LET chunk == WinSlot(1, xi)
           IN  Handler(ClearChunks(worldStructure, [by |-> "x", at |-> chunk.x]),
                       Op("ColClear", chunk.x, 0, 0, 0, 0, NoArg))

ColFill ==
    /\ steps < MaxSteps
    /\ \E xi \in WinIdx, item \in SessionHeadingFills :
           LET chunk == WinSlot(1, xi)
           IN  Handler(handleChunkUpdate(worldStructure, [by |-> "x", at |-> chunk.x],
                                         [item |-> item, val |-> "None"]),
                       Op("ColFill", chunk.x, 0, 0, 0, 0,
                          [item |-> item, side |-> "Top", val |-> "None"]))

\* the row headings sit on the slots with x = xzRadius or x = -xzRadius
RowClear ==
    /\ steps < MaxSteps
    /\ \E zi \in WinIdx :
           LET chunk == WinSlot(zi, 1)
           IN  Handler(ClearChunks(worldStructure, [by |-> "z", at |-> chunk.z]),
                       Op("RowClear", 0, 0, chunk.z, 0, 0, NoArg))

RowFill ==
    /\ steps < MaxSteps
    /\ \E zi \in WinIdx, item \in SessionHeadingFills :
           LET chunk == WinSlot(zi, 1)
           IN  Handler(handleChunkUpdate(worldStructure, [by |-> "z", at |-> chunk.z],
                                         [item |-> item, val |-> "None"]),
                       Op("RowFill", 0, 0, chunk.z, 0, 0,
                          [item |-> item, side |-> "Top", val |-> "None"]))

\* the plus buttons of the window's first row (rowIndex === 0)
PlusTop ==
    /\ steps < MaxSteps
    /\ \E xi \in WinIdx :
           LET chunk == WinSlot(1, xi)
               ch == newChunk(chunk.x, chunkY, chunk.z - 1)
           IN  /\ CanInsert(ch)
               /\ Handler(Prepend(worldStructure, ch),
                          Op("PlusTop", chunk.x, chunkY, chunk.z, 0, 0, NoArg))

\* ... of its last row
PlusBottom ==
    /\ steps < MaxSteps
    /\ \E xi \in WinIdx :
           LET chunk == WinSlot(WinLast, xi)
               ch == newChunk(chunk.x, chunkY, chunk.z + 1)
           IN  /\ CanInsert(ch)
               /\ Handler(AppendChunk(worldStructure, ch),
                          Op("PlusBottom", chunk.x, chunkY, chunk.z, 0, 0, NoArg))

\* ... of its first column (chunkIndex === 0)
PlusLeft ==
    /\ steps < MaxSteps
    /\ \E zi \in WinIdx :
           LET chunk == WinSlot(zi, 1)
               ch == newChunk(chunk.x - 1, chunkY, chunk.z)
           IN  /\ CanInsert(ch)
               /\ Handler(Prepend(worldStructure, ch),
                          Op("PlusLeft", chunk.x, chunkY, chunk.z, 0, 0, NoArg))

\* ... of its last column
PlusRight ==
    /\ steps < MaxSteps
    /\ \E zi \in WinIdx :
           LET chunk == WinSlot(zi, WinLast)
               ch == newChunk(chunk.x + 1, chunkY, chunk.z)
           IN  /\ CanInsert(ch)
               /\ Handler(AppendChunk(worldStructure, ch),
                          Op("PlusRight", chunk.x, chunkY, chunk.z, 0, 0, NoArg))

\* the chunkPredicate of the heading recorded in o when the window is laid
\* out for layer y: the heading belongs to the slot of the window's first row
\* (column headings) or first column (row headings)
HeadingPredicate(ws, y, o) ==
    LET r == calcXZRadius(ws)
        col == o.kind \in {"ColClear", "ColFill"}
        chunk == IF col THEN Slot(ws, y, o.x, -r) ELSE Slot(ws, y, -r, o.z)
    IN  IF col THEN [by |-> "x", at |-> chunk.x] ELSE [by |-> "z", at |-> chunk.z]

\* the structure the heading item recorded in o hands to setWorldStructure
\* with the chunkPredicate p
HeadingOn(ws, p, o) ==
    IF o.kind \in {"ColClear", "RowClear"}
    THEN ClearChunks(ws, p)
    ELSE handleChunkUpdate(ws, p, [item |-> o.e.item, val |-> "None"])

Next ==
    \/ handleChange
    \/ ExtendMinusY
    \/ ExtendPlusY
    \/ CellOnChange
    \/ ChunkFill
    \/ onDeleteIntent
    \/ onOriginChunkChangeIntent
    \/ DummyOnClick
    \/ ColClear
    \/ ColFill
    \/ RowClear
    \/ RowFill
    \/ PlusTop
    \/ PlusBottom
    \/ PlusLeft
    \/ PlusRight

Spec == Init /\ [][Next]_vars

(***************************************************************************)
(* A session that continues from a document installed from outside: any    *)
(* list of chunks, in any order and with repeated coordinates, passes the  *)
(* schema.  A layer of the document is shown and one handler call follows. *)
(***************************************************************************)
DocCoords ==
    {<<0, 0, 0>>, <<2, 0, -1>>, <<-2, 0, 1>>, <<-1, 1, 2>>,
     <<0, 1, 0>>, <<1, -1, -1>>}

\* the cell (1, 1) of the document's origin chunk
DocCell ==
    [newCell EXCEPT !.ceiling = "Solid", !.floor = "Solid", !.wall_left = "Solid"]

\* JSON.parse shares no objects; the chunk at (0, 0, 0) is the origin chunk
\* and has one edited cell, the others are default chunks
DocChunk(c) ==
    FromGrid(c[1], c[2], c[3],
             [cz \in 1..ChunkDim |-> [cx \in 1..ChunkDim |->
                 IF c = <<0, 0, 0>> /\ cz = 1 /\ cx = 1 THEN DocCell ELSE newCell]],
             IF c = <<0, 0, 0>> THEN "doc" ELSE "None")

\* a default chunk at the origin chunk's coordinate that claims no name; the
\* schema has no rule against two chunks at one coordinate
DocTwin == newChunk(0, 0, 0)

DocChunks == {DocChunk(c) : c \in DocCoords} \cup {DocTwin}

Docs == UNION {[1..n -> DocChunks] : n \in 0..MaxDocLen}

\* the layer shown is one of the document's yChoices
InitLoaded ==
    /\ worldStructure \in {[chunks |-> d] : d \in Docs}
    /\ chunkY \in {yChoices[i] : i \in 1..Len(yChoices)}
    /\ name = "doc"
    /\ op = Op("Load", 0, 0, 0, 0, 0, NoArg)
    /\ steps = MaxSteps - 1
    /\ loads = <<>>
    /\ loadCount = 0
    /\ saved = NoSave
    /\ disk = {}
    /\ installed = 0
    /\ InitView

SpecLoaded == InitLoaded /\ [][Next]_vars

(***************************************************************************)
(* A session on one chunk whose cell (1, 1) has any wall, door and window  *)
(* on its top side; two calls of a cell's menu follow, with any item of    *)
(* the menu.                                                               *)
(***************************************************************************)
MenuCells ==
    {[newCell EXCEPT !.wall_top = w, !.door_top = d, !.window_top = v] :
        w \in CellWall, d \in BOOLEAN, v \in BOOLEAN}

\* CellSection onChange with any item of the cell's menu, handed on by
\* ChunkSection to the editor's onChange
CellSectionOnChange ==
    /\ steps < MaxSteps
    /\ \E zi \in WinIdx, xi \in WinIdx, pos \in EditCells, e \in CellEdits :
           LET chunk == WinSlot(zi, xi)
               nch == ReplaceCell(chunk, pos[1], pos[2],
                                  EditedCell(CellAt(chunk, pos[1], pos[2]), e))
           IN  /\ IsChunk(chunk)
               /\ Handler(ReplaceChunk(worldStructure, nch),
                          Op("CellOnChange", chunk.x, chunk.y, chunk.z, pos[1], pos[2],
                             e))

InitCells ==
    /\ worldStructure \in
          {[chunks |-> << FromGrid(0, 0, 0,
                                   [cz \in 1..ChunkDim |-> [cx \in 1..ChunkDim |->
                                       IF cz = 1 /\ cx = 1 THEN c ELSE newCell]],
                                   "None") >>] : c \in MenuCells}
    /\ chunkY = 0
    /\ name = ""
    /\ op = Op("Init", 0, 0, 0, 0, 0, NoArg)
    /\ steps = MaxSteps - 2
    /\ loads = <<>>
    /\ loadCount = 0
    /\ saved = NoSave
    /\ disk = {}
    /\ installed = 0
    /\ InitView

NextCells == CellSectionOnChange

SpecCells == InitCells /\ [][NextCells]_vars

(***************************************************************************)
(* Files.  The text of a file is either not JSON at all or a JSON value;   *)
(* a JSON value carries its type, as JSON.parse gives it to the schema.    *)
(* A number is an integer val, or val + 1/2 when int is FALSE.             *)
(***************************************************************************)
JNull == [type |-> "null"]

JStr(str) == [type |-> "string", val |-> str]

JBool(b) == [type |-> "boolean", val |-> b]

JNum(n) == [type |-> "number", int |-> TRUE, val |-> n]

JHalf(n) == [type |-> "number", int |-> FALSE, val |-> n]

JArr(items) == [type |-> "array", items |-> items]

JObj(fields) == [type |-> "object", fields |-> fields]

CellKeys == DOMAIN newCell

BoolKeys ==
    {"door_top", "door_bottom", "door_left", "door_right",
     "window_top", "window_bottom", "window_left", "window_right"}

\* JSON.stringify(data, null, 4): objects are written by value, so arrays and
\* cells that were one shared object are written once per slot
StringifyCell(c) ==
    JObj([k \in CellKeys |-> IF k \in BoolKeys THEN JBool(c[k]) ELSE JStr(c[k])])

StringifyChunk(ch) ==
    JObj([x |-> JNum(ch.x), y |-> JNum(ch.y), z |-> JNum(ch.z),
          cells |-> JArr([r \in 1..Len(Grid(ch)) |->
                        JArr([c \in 1..Len(Grid(ch)[r]) |->
                                StringifyCell(Grid(ch)[r][c])])]),
          world_structure |-> JStr(ch.world_structure)])

Stringify(ws) ==
    [json |-> TRUE,
     value |-> JObj([chunks |-> JArr([i \in 1..Len(ws.chunks) |->
                                        StringifyChunk(ws.chunks[i])])])]

\* lib/utils safeParseJSON: null when JSON.parse throws
safeParseJSON(str) == IF str.json THEN str.value ELSE JNull

\* lib/schemas
cellSchema(v) ==
    /\ v.type = "object"
    /\ CellKeys \subseteq DOMAIN v.fields
    /\ \A k \in CellKeys :
          IF k \in BoolKeys
          THEN v.fields[k].type = "boolean"
          ELSE /\ v.fields[k].type = "string"
               /\ v.fields[k].val \in (IF k = "special" THEN CellSpecial ELSE CellWall)

ChunkSchema(v) ==
    /\ v.type = "object"
    /\ {"x", "y", "z", "cells", "world_structure"} \subseteq DOMAIN v.fields
    /\ \A k \in {"x", "y", "z"} : v.fields[k].type = "number"
    /\ v.fields.cells.type = "array"
    /\ \A r \in 1..Len(v.fields.cells.items) :
          /\ v.fields.cells.items[r].type = "array"
          /\ \A c \in 1..Len(v.fields.cells.items[r].items) :
                cellSchema(v.fields.cells.items[r].items[c])
    /\ v.fields.world_structure.type = "string"

WorldStructureSchema(v) ==
    /\ v.type = "object"
    /\ "chunks" \in DOMAIN v.fields
    /\ v.fields.chunks.type = "array"
    /\ \A i \in 1..Len(v.fields.chunks.items) : ChunkSchema(v.fields.chunks.items[i])

\* lib/utils safeSchemaParseJSON: the value when the schema accepts it, null
\* otherwise
safeSchemaParseJSON(str) ==
    LET v == safeParseJSON(str)
    IN  IF WorldStructureSchema(v)
        THEN [success |-> TRUE, data |-> v]
        ELSE [success |-> FALSE, data |-> JNull]

\* every x, y and z of an accepted value is an integer
IntegerCoords(v) ==
    \A i \in 1..Len(v.fields.chunks.items) :
        \A k \in {"x", "y", "z"} : v.fields.chunks.items[i].fields[k].int

\* the objects of an accepted value: the declared keys only, no object shared
CellData(v) == [k \in CellKeys |-> v.fields[k].val]

\* a chunk that forgets the name it claims
ChunkDataUnowned(v) ==
    FromGrid(v.fields.x.val, v.fields.y.val, v.fields.z.val,
             [r \in 1..Len(v.fields.cells.items) |->
                [c \in 1..Len(v.fields.cells.items[r].items) |->
                    CellData(v.fields.cells.items[r].items[c])]],
             "None")

ChunkData(v) ==
    FromGrid(v.fields.x.val, v.fields.y.val, v.fields.z.val,
             [r \in 1..Len(v.fields.cells.items) |->
                [c \in 1..Len(v.fields.cells.items[r].items) |->
                    CellData(v.fields.cells.items[r].items[c])]],
             v.fields.world_structure.val)

WorldStructureData(v) ==
    [chunks |-> [i \in 1..Len(v.fields.chunks.items) |->
                    ChunkData(v.fields.chunks.items[i])]]

\* the length the repair loop of handleLoadFromFile fills to
RepairDim == 4

\* a fill that pushes one element only
fillByOne(arr, t, length) ==
    IF Len(arr) >= length THEN arr ELSE Append(arr, t)

\* a fill that puts the new elements in front
fillFront(arr, t, length) ==
    IF Len(arr) >= length THEN arr
    ELSE [i \in 1..(length - Len(arr)) |-> t] \o arr

\* an install that puts the file's chunks behind the chunks the page holds
RepairOntoCurrent(ws) ==
    [chunks |-> worldStructure.chunks \o ws.chunks]

\* lib/utils fillToLength: push t() until arr has `length` elements
fillToLength(arr, t, length) ==
    IF Len(arr) >= length THEN arr
    ELSE arr \o [i \in 1..(length - Len(arr)) |-> t]

\* the body of the repair loop: the rows are looked at only when the chunk
\* has fewer than 4 of them
RepairChunk(ch) ==
    LET rows == fillToLength(Grid(ch), <<>>, RepairDim)
    IN  IF Len(Grid(ch)) < RepairDim
        THEN FromGrid(ch.x, ch.y, ch.z,
                      [r \in 1..Len(rows) |->
                          IF Len(rows[r]) < RepairDim
                          THEN fillToLength(rows[r], newCell, RepairDim)
                          ELSE rows[r]],
                      ch.world_structure)
        ELSE ch

Repair(ws) ==
    [chunks |-> [i \in 1..Len(ws.chunks) |-> RepairChunk(ws.chunks[i])]]

(***************************************************************************)
(* The files the user may pick.  A chunk of a file is given by the lengths *)
(* of its rows; the cell at (r, c) is marked with its position.            *)
(***************************************************************************)
WallSeq == <<"None", "Solid", "SolidWithDoorGap", "SolidWithWindowGap">>

SpecialSeq == <<"None", "Chair", "TreasureChest", "Staircase", "Stairs">>

PosCell(r, c) ==
    [newCell EXCEPT !.ceiling = "Solid",
                    !.wall_top = WallSeq[((r - 1) % 4) + 1],
                    !.door_top = (r > 4),
                    !.special = SpecialSeq[((c - 1) % 5) + 1]]

FileChunk(x, y, z, shape, w) ==
    JObj([x |-> x, y |-> y, z |-> z,
          cells |-> JArr([r \in 1..Len(shape) |->
                        JArr([c \in 1..shape[r] |-> StringifyCell(PosCell(r, c))])]),
          world_structure |-> JStr(w)])

FileDoc(fchunks) == [json |-> TRUE, value |-> JObj([chunks |-> JArr(fchunks)])]

\* a cell whose wall_top is no CellWall
BadCell ==
    JObj([k \in CellKeys |->
            IF k \in BoolKeys THEN JBool(FALSE)
            ELSE IF k = "wall_top" THEN JStr("Brick") ELSE JStr("None")])

Files ==
    << [name |-> "valid.json",
        text |-> FileDoc(<< FileChunk(JNum(0), JNum(0), JNum(0), <<4, 4, 4, 4>>, "valid"),
                            FileChunk(JNum(1), JNum(0), JNum(0), <<4, 4, 4, 4>>, "None") >>)],
       [name |-> "short.json",
        text |-> FileDoc(<< FileChunk(JNum(0), JNum(0), JNum(0), <<3, 3>>, "None"),
                            FileChunk(JNum(0), JNum(1), JNum(0), <<>>, "None") >>)],
       [name |-> "narrow",
        text |-> FileDoc(<< FileChunk(JNum(0), JNum(0), JNum(0), <<3, 3, 3, 3>>, "None"),
                            FileChunk(JNum(1), JNum(0), JNum(0), <<4, 2, 0, 4>>, "None") >>)],
       [name |-> "wide.json",
        text |-> FileDoc(<< FileChunk(JNum(0), JNum(0), JNum(0), <<5, 3>>, "None"),
                            FileChunk(JNum(0), JNum(0), JNum(1), <<4, 2, 5>>, "None") >>)],
       [name |-> "tall.json",
        text |-> FileDoc(<< FileChunk(JNum(0), JNum(0), JNum(0), <<4, 4, 4, 4, 4>>, "tall"),
                            FileChunk(JNum(-1), JNum(0), JNum(0), <<3, 4, 4, 4, 5>>, "None") >>)],
       [name |-> "empty.json", text |-> FileDoc(<<>>)],
       [name |-> "garbage.json", text |-> [json |-> FALSE]],
       [name |-> "nochunks.json", text |-> [json |-> TRUE, value |-> JArr(<<>>)]],
       [name |-> "badcell.json",
        text |-> FileDoc(<< FileChunk(JNum(0), JNum(0), JNum(0), <<4, 4, 4, 4>>, "None"),
                            JObj([x |-> JNum(1), y |-> JNum(0), z |-> JNum(0),
                                  cells |-> JArr(<< JArr(<< BadCell >>) >>),
                                  world_structure |-> JStr("None")]) >>)],
       [name |-> "textcoord.json",
        text |-> FileDoc(<< FileChunk(JStr("1"), JNum(0), JNum(0), <<4, 4, 4, 4>>, "None") >>)],
       [name |-> "half.json",
        text |-> FileDoc(<< FileChunk(JHalf(1), JNum(0), JNum(0), <<4, 4, 4, 4>>, "None") >>)] >>

\* the file names that end with ".json", with what is left without it
Stems ==
    [n \in {"valid.json", "short.json", "wide.json", "tall.json", "empty.json",
            "garbage.json", "nochunks.json", "badcell.json", "textcoord.json",
            "half.json"} |->
        CASE n = "valid.json" -> "valid"
          [] n = "short.json" -> "short"
          [] n = "wide.json" -> "wide"
          [] n = "tall.json" -> "tall"
          [] n = "empty.json" -> "empty"
          [] n = "garbage.json" -> "garbage"
          [] n = "nochunks.json" -> "nochunks"
          [] n = "badcell.json" -> "badcell"
          [] n = "textcoord.json" -> "textcoord"
          [] n = "half.json" -> "half"]

\* lib/utils stripSuffixIfExists(s, ".json")
stripSuffixIfExists(str) == IF str \in DOMAIN Stems THEN Stems[str] ELSE str

\* `${name}.json`
JsonFileName(nm) ==
    IF \E n \in DOMAIN Stems : Stems[n] = nm
    THEN CHOOSE n \in DOMAIN Stems : Stems[n] = nm
    ELSE IF nm = "" THEN ".json" ELSE IF nm = "narrow" THEN "narrow.json" ELSE "doc.json"

(***************************************************************************)
(* handleLoadFromFile is an async function: a call waits for the file      *)
(* picker, then for the text of the file, then for the schema, and the     *)
(* handlers of the page run in between.  loads holds the calls that have   *)
(* not returned: where each waits (pc) and the file it has (0: none yet).  *)
(* installed is the file whose document was handed to setWorldStructure    *)
(* last (0: none yet).                                                     *)
(***************************************************************************)
LoadOp(kind, file, outcome) == [kind |-> kind, file |-> file, outcome |-> outcome]

\* a click on Load From File: the call runs up to `await acceptFileUpload()`
handleLoadFromFile ==
    /\ loadCount < MaxLoads
    /\ loadCount' = loadCount + 1
    /\ loads' = Append(loads, [pc |-> "upload", file |-> 0])
    /\ op' = LoadOp("handleLoadFromFile", 0, "pending")
    /\ UNCHANGED <<worldStructure, chunkY, name, steps, saved, disk, installed>>
    /\ UNCHANGED <<dragVars, zoomVars>>

\* the picker resolves with a file or with null: without a file the call
\* returns, with one it sets the name and waits for `file.text()`
acceptFileUploadResolved ==
    \E i \in 1..Len(loads), f \in disk \cup {0} :
        /\ loads[i].pc = "upload"
        /\ IF f = 0
           THEN /\ loads' = RemoveAt(loads, i)
                /\ name' = name
                /\ op' = LoadOp("acceptFileUploadResolved", 0, "no file")
           ELSE /\ loads' = [loads EXCEPT ![i] = [pc |-> "text", file |-> f]]
                /\ name' = stripSuffixIfExists(Files[f].name)
                /\ op' = LoadOp("acceptFileUploadResolved", f, "pending")
        /\ UNCHANGED <<worldStructure, chunkY, steps, loadCount, saved, disk, installed>>
        /\ UNCHANGED <<dragVars, zoomVars>>

\* the text arrives: safeSchemaParseJSON parses it and waits for schema.spa
fileTextResolved ==
    \E i \in 1..Len(loads) :
        /\ loads[i].pc = "text"
        /\ loads' = [loads EXCEPT ![i].pc = "spa"]
        /\ op' = LoadOp("fileTextResolved", loads[i].file, "pending")
        /\ UNCHANGED <<worldStructure, chunkY, name, steps, loadCount, saved, disk, installed>>
        /\ UNCHANGED <<dragVars, zoomVars>>

\* the schema answers: on null the call returns, otherwise it repairs the
\* value and installs it.  A value with a coordinate that is no integer is
\* accepted too; the call is not followed past this point then.
safeSchemaParseJSONResolved ==
    \E i \in 1..Len(loads) :
        /\ loads[i].pc = "spa"
        /\ LET ws == safeSchemaParseJSON(Files[loads[i].file].text)
           IN  IF ~ws.success
               THEN /\ worldStructure' = worldStructure
                    /\ installed' = installed
                    /\ op' = LoadOp("safeSchemaParseJSONResolved", loads[i].file,
                                    "error parsing file")
               ELSE /\ IntegerCoords(ws.data)
                    /\ worldStructure' = Repair(WorldStructureData(ws.data))
                    /\ installed' = loads[i].file
                    /\ op' = LoadOp("safeSchemaParseJSONResolved", loads[i].file,
                                    "installed")
        /\ loads' = RemoveAt(loads, i)
        /\ UNCHANGED <<chunkY, name, steps, loadCount, saved, disk>>
        /\ UNCHANGED <<dragVars, zoomVars>>

\* handleSave: downloadAsJsonFile(worldStructure, `${name}.json`)
handleSave ==
    /\ saved' = [name |-> JsonFileName(name), text |-> Stringify(worldStructure)]
    /\ op' = LoadOp("handleSave", 0, "saved")
    /\ UNCHANGED <<worldStructure, chunkY, name, steps, loads, loadCount, disk, installed>>
    /\ UNCHANGED <<dragVars, zoomVars>>

NextFiles ==
    \/ handleLoadFromFile
    \/ acceptFileUploadResolved
    \/ fileTextResolved
    \/ safeSchemaParseJSONResolved
    \/ handleSave

\* the structures the page holds when the first file is picked: the empty
\* one, and one the editor has built, with a chunk fresh from newChunk and an
\* edited chunk set as origin under the name ""
EditedStart ==
    LET a == newChunk(0, 0, 0)
        b == ReplaceCell(a, 3, 2, [newCell EXCEPT !.ceiling = "Solid", !.door_left = TRUE])
        ws == AppendChunk(AppendChunk(newWorldStructure, b), newChunk(1, 0, 0))
    IN  SetOrigin(ws, b, "")

InitFiles ==
    /\ worldStructure \in {newWorldStructure, EditedStart}
    /\ chunkY = 0
    /\ name = ""
    /\ op = Op("Init", 0, 0, 0, 0, 0, NoArg)
    /\ steps = 0
    /\ loads = <<>>
    /\ loadCount = 0
    /\ saved = NoSave
    /\ disk = 1..Len(Files)
    /\ installed = 0
    /\ InitView

SpecFiles == InitFiles /\ [][NextFiles]_vars

(***************************************************************************)
(* The page with its editor: a structure built in the editor is shown, a   *)
(* call of handleLoadFromFile has its file and waits for the text, and the *)
(* handlers of the editor and of the page run in any order, with one call  *)
(* of an editor handler and one more click on Load From File.              *)
(***************************************************************************)
\* the files of this session, both accepted by the schema
SessionDisk ==
    {f \in 1..Len(Files) : Files[f].name \in {"valid.json", "short.json"}}

InitSession ==
    /\ worldStructure = EditedStart
    /\ chunkY = 0
    /\ steps = MaxSteps - 1
    /\ loadCount = MaxLoads - 1
    /\ saved = NoSave
    /\ disk = SessionDisk
    /\ installed = 0
    /\ InitView
    /\ \E f \in SessionDisk :
          /\ loads = << [pc |-> "text", file |-> f] >>
          /\ name = stripSuffixIfExists(Files[f].name)
          /\ op = LoadOp("acceptFileUploadResolved", f, "pending")

NextSession == Next \/ NextFiles

SpecSession == InitSession /\ [][NextSession]_vars

(***************************************************************************)
(* hooks/useShiftDragger.  The second effect runs again after every render *)
(* in which dragging or position is a new value; each run has its own      *)
(* startX, startY, initialTop and initialLeft and its own onMouseMove and   *)
(* onMouseUp.  The cleanup takes onMouseDown off the element and leaves the *)
(* listeners a run has put on document where they are.  listeners holds,    *)
(* in the order they were added, the runs whose onMouseMove and onMouseUp   *)
(* are on document, each with its four variables; cur marks the run that is *)
(* the current one.  A render and its effects are taken as part of the      *)
(* event that sets the state.                                               *)
(***************************************************************************)
ViewOp(kind, a, b) == [kind |-> kind, a |-> a, b |-> b]

MouseCoord == 0..MaxMouse

\* the effect's cleanup and next run: no run on document is the current one
EffectRerun(ls) == [i \in 1..Len(ls) |-> [ls[i] EXCEPT !.cur = FALSE]]

\* document keydown: if (e.shiftKey) setDragging(true)
handleKeyDown ==
    \E shiftKey \in BOOLEAN :
        /\ dragging' = (IF shiftKey THEN TRUE ELSE dragging)
        /\ listeners' = (IF dragging' # dragging THEN EffectRerun(listeners)
                         ELSE listeners)
        /\ op' = [kind |-> "handleKeyDown", shiftKey |-> shiftKey]
        /\ UNCHANGED <<worldStructure, chunkY, name, steps, loads, loadCount, saved,
                       disk, installed, position, zoomVars>>

\* document keyup: if (!e.shiftKey) setDragging(false)
handleKeyUp ==
    \E shiftKey \in BOOLEAN :
        /\ dragging' = (IF ~shiftKey THEN FALSE ELSE dragging)
        /\ listeners' = (IF dragging' # dragging THEN EffectRerun(listeners)
                         ELSE listeners)
        /\ op' = [kind |-> "handleKeyUp", shiftKey |-> shiftKey]
        /\ UNCHANGED <<worldStructure, chunkY, name, steps, loads, loadCount, saved,
                       disk, installed, position, zoomVars>>

\* mousedown on the element: without dragging it returns; otherwise the
\* current run takes the pointer and the position as its start and adds its
\* onMouseMove and onMouseUp to document (a listener already there is not
\* added a second time)
onMouseDown ==
    \E x \in MouseCoord, y \in MouseCoord :
        LET run == [startX |-> x, startY |-> y, initialTop |-> position.top,
                    initialLeft |-> position.left, cur |-> TRUE]
            on == {i \in 1..Len(listeners) : listeners[i].cur}
        IN  /\ IF ~dragging THEN listeners' = listeners
               ELSE IF on # {}
                    THEN listeners' = [i \in 1..Len(listeners) |->
                                          IF i \in on THEN run ELSE listeners[i]]
                    ELSE /\ Len(listeners) < MaxListeners
                         /\ listeners' = Append(listeners, run)
            /\ op' = ViewOp("onMouseDown", x, y)
            /\ UNCHANGED <<worldStructure, chunkY, name, steps, loads, loadCount,
                           saved, disk, installed, dragging, position, zoomVars>>

\* the position the onMouseMove of a run sets
MovedPosition(run, x, y) ==
    [top |-> run.initialTop + (y - run.startY),
     left |-> run.initialLeft + (x - run.startX)]

\* mousemove on document: every onMouseMove there calls setPosition, in the
\* order they were added, and the render shows the last value set
onMouseMove ==
    \E x \in MouseCoord, y \in MouseCoord :
        /\ IF listeners = <<>>
           THEN UNCHANGED <<position, listeners>>
           ELSE LET p == MovedPosition(listeners[Len(listeners)], x, y)
                IN  /\ Abs(p.top) <= MaxPos /\ Abs(p.left) <= MaxPos
                    /\ position' = p
                    /\ listeners' = EffectRerun(listeners)
        /\ op' = ViewOp("onMouseMove", x, y)
        /\ UNCHANGED <<worldStructure, chunkY, name, steps, loads, loadCount, saved,
                       disk, installed, dragging, zoomVars>>

\* mouseup on document: every onMouseUp there takes its run off document
onMouseUp ==
    /\ listeners' = <<>>
    /\ op' = ViewOp("onMouseUp", 0, 0)
    /\ UNCHANGED <<worldStructure, chunkY, name, steps, loads, loadCount, saved,
                   disk, installed, dragging, position, zoomVars>>

\* the Reset View button: setPosition({ top: 0, left: 0 })
ResetView ==
    /\ position' = [top |-> 0, left |-> 0]
    /\ listeners' = EffectRerun(listeners)
    /\ op' = ViewOp("ResetView", 0, 0)
    /\ UNCHANGED <<worldStructure, chunkY, name, steps, loads, loadCount, saved,
                   disk, installed, dragging, zoomVars>>

NextDrag ==
    \/ handleKeyDown
    \/ handleKeyUp
    \/ onMouseDown
    \/ onMouseMove
    \/ onMouseUp
    \/ ResetView

SpecDrag == Init /\ [][NextDrag]_vars

(***************************************************************************)
(* hooks/useScrollScaler.  The scale is counted in tenths, so a step of    *)
(* 0.1 is a step of 1; the rounding of the floating-point sum is left out. *)
(* The wheel listener is registered again after every render in which      *)
(* scale or active is a new value, so it reads the scale and the active of *)
(* the last render.                                                        *)
(***************************************************************************)
\* Number.prototype.toString of a scale, to the tenth
toString ==
    [n \in 5..15 |->
        CASE n = 5 -> "0.5" [] n = 6 -> "0.6" [] n = 7 -> "0.7" [] n = 8 -> "0.8"
          [] n = 9 -> "0.9" [] n = 10 -> "1" [] n = 11 -> "1.1" [] n = 12 -> "1.2"
          [] n = 13 -> "1.3" [] n = 14 -> "1.4" [] n = 15 -> "1.5"]

\* a listener that does not look at active
ScaleAfterWheelAnywhere(act, sc, deltaY) ==
    IF deltaY > 0 THEN sc - 1 ELSE IF deltaY < 0 THEN sc + 1 ELSE sc

\* the scale state after handleWheel: newScale when active, the old scale
\* otherwise
ScaleAfterWheel(act, sc, deltaY) ==
    IF act
    THEN (IF deltaY > 0 THEN sc - 1 ELSE IF deltaY < 0 THEN sc + 1 ELSE sc)
    ELSE sc

\* mouseenter on the bounds element
handleMouseEnter ==
    /\ active' = TRUE
    /\ op' = ViewOp("handleMouseEnter", 0, 0)
    /\ UNCHANGED <<worldStructure, chunkY, name, steps, loads, loadCount, saved,
                   disk, installed, dragVars, scale, styleScale>>

\* mouseleave on the bounds element
handleMouseLeave ==
    /\ active' = FALSE
    /\ op' = ViewOp("handleMouseLeave", 0, 0)
    /\ UNCHANGED <<worldStructure, chunkY, name, steps, loads, loadCount, saved,
                   disk, installed, dragVars, scale, styleScale>>

\* wheel on document: when active, setScale(newScale) and then
\* scaleRef.current.style.scale = scale.toString(), with scale the constant
\* of the render the listener was made in
handleWheel ==
    \E deltaY \in {-1, 0, 1} :
        /\ scale' = ScaleAfterWheel(active, scale, deltaY)
        /\ Abs(scale' - 10) <= MaxZoom
        /\ styleScale' = (IF active THEN toString[scale] ELSE styleScale)
        /\ op' = ViewOp("handleWheel", deltaY, 0)
        /\ UNCHANGED <<worldStructure, chunkY, name, steps, loads, loadCount, saved,
                       disk, installed, dragVars, active>>

NextZoom ==
    \/ handleMouseEnter
    \/ handleMouseLeave
    \/ handleWheel

SpecZoom == Init /\ [][NextZoom]_vars

(***************************************************************************)
(* Vocabulary of the properties.                                           *)
(***************************************************************************)
MaxOf(S) == CHOOSE m \in S : \A n \in S : n <= m

MinOf(S) == CHOOSE m \in S : \A n \in S : m <= n

ChunkSet(ws) == {ws.chunks[i] : i \in 1..Len(ws.chunks)}

\* the largest |x| or |z| of a chunk, 0 without chunks
TrueRadius(ws) ==
    MaxOf({0} \cup {Abs(ch.x) : ch \in ChunkSet(ws)}
              \cup {Abs(ch.z) : ch \in ChunkSet(ws)})

YsOf(ws) == {ch.y : ch \in ChunkSet(ws)}

DefaultGrid == [cz \in 1..ChunkDim |-> [cx \in 1..ChunkDim |-> newCell]]

\* ch is, by value, a default chunk at (x, y, z)
IsDefaultChunkAt(ch, x, y, z) ==
    ChunkVal(ch) = [x |-> x, y |-> y, z |-> z, cells |-> DefaultGrid,
                    world_structure |-> "None"]

\* new is old plus exactly one chunk, a default chunk at (x, y, z)
AddsOneDefault(old, new, x, y, z) ==
    \E k \in 1..Len(new) :
        /\ IsDefaultChunkAt(new[k], x, y, z)
        /\ RemoveAt(new, k) = old

(***************************************************************************)
(* Properties.                                                             *)
(***************************************************************************)

\* C1: in every state reached from the empty structure by the editor's
\* handlers, no two chunks of worldStructure.chunks have the same (x, y, z).
C1_UniqueCoords ==
    \A i, j \in 1..Len(worldStructure.chunks) :
        i < j => ~SameCoord(worldStructure.chunks[i], worldStructure.chunks[j])

\* C2: calcXZRadius is the largest |x| or |z| of a chunk, and 0 for the empty
\* structure, whatever the order of the chunks; the structure whose only
\* chunk is (2, 0, -1) has radius 2.
C2_RadiusIsMax == xzRadius = TrueRadius(worldStructure)

\* C3: every chunk lies within the computed radius, |x| <= radius and
\* |z| <= radius, so on its layer it has a slot of the window.
C3_EveryChunkVisible ==
    \A ch \in ChunkSet(worldStructure) :
        Abs(ch.x) <= xzRadius /\ Abs(ch.z) <= xzRadius

\* C4: the window has 2r+1 rows of 2r+1 slots; the slot at row z+r, column x+r
\* is a chunk of the structure at exactly (x, chunkY, z) when there is one and
\* the placeholder {x, z} otherwise; the empty structure gives the 1x1 window
\* holding {0, 0}.
C4_WindowLayout ==
    \A r \in {xzRadius}, w \in {chunks}, present \in {ChunkSet(worldStructure)} :
        /\ Len(w) = 2 * r + 1
        /\ \A zi \in 1..Len(w) : Len(w[zi]) = 2 * r + 1
        /\ \A z \in (-r)..r, x \in (-r)..r :
              \A slot \in {w[z + r + 1][x + r + 1]} :
                  LET there == {ch \in present :
                                   ch.x = x /\ ch.y = chunkY /\ ch.z = z}
                  IN  IF there # {}
                      THEN IsChunk(slot) /\ slot \in there
                      ELSE DOMAIN slot = {"x", "z"} /\ slot.x = x /\ slot.z = z
        /\ worldStructure.chunks = <<>> => w = << << [x |-> 0, z |-> 0] >> >>

\* a layer other than 0 is shown, with a chunk on it, a chunk of another
\* layer inside the window and a placeholder
C4_Witness ==
    /\ op.kind = "handleChange"
    /\ chunkY # 0
    /\ xzRadius >= 1
    /\ \E ch \in ChunkSet(worldStructure) : ch.y = chunkY
    /\ \E ch \in ChunkSet(worldStructure) :
          /\ ch.y # chunkY
          /\ Abs(ch.x) <= xzRadius /\ Abs(ch.z) <= xzRadius
          /\ ~IsChunk(Slot(worldStructure, chunkY, ch.x, ch.z))

\* C5 as stated: leastY and greatestY are the least and the greatest y of a
\* chunk, and both 0 for the empty structure.
C5_YRangeIsMinMax ==
    IF worldStructure.chunks = <<>>
    THEN leastY = 0 /\ greatestY = 0
    ELSE /\ leastY = MinOf(YsOf(worldStructure))
         /\ greatestY = MaxOf(YsOf(worldStructure))

\* C5 as amended: leastY and greatestY are the least and the greatest of 0
\* and the y of every chunk, so the range always holds layer 0.
C5_YRangeFromZero ==
    \A range \in {YRange(worldStructure)}, ys \in {YsOf(worldStructure) \cup {0}} :
        /\ range.leastY = MinOf(ys)
        /\ range.greatestY = MaxOf(ys)

\* the chunk of layer 0 has been deleted and every chunk left lies above it
C5_Witness ==
    /\ op.kind = "onDeleteIntent"
    /\ op.y = 0
    /\ worldStructure.chunks # <<>>
    /\ MinOf(YsOf(worldStructure)) > 0
    /\ leastY = 0

\* C6: with r the computed radius, a chunk inserted at (r+1, y, 0), whether
\* prepended or appended, makes the computed radius greater than r.
C6_RadiusGrows ==
    \A r \in {xzRadius} :
        \A ch \in {newChunk(r + 1, y, 0) : y \in (-MaxY)..MaxY} :
            /\ calcXZRadius(Prepend(worldStructure, ch)) > r
            /\ calcXZRadius(AppendChunk(worldStructure, ch)) > r

\* the right plus button of row z = 0 has inserted (r+1, y, 0) next to chunks
\* that were there
C6_Witness ==
    /\ op.kind = "PlusRight"
    /\ op.z = 0
    /\ Len(worldStructure.chunks) >= 2
    /\ xzRadius = op.x + 1

\* the least and the greatest y of a chunk, (0, 0) without chunks
PresentMinY(ws) == IF ws.chunks = <<>> THEN 0 ELSE MinOf(YsOf(ws))

PresentMaxY(ws) == IF ws.chunks = <<>> THEN 0 ELSE MaxOf(YsOf(ws))

NoChunkAt(s, x, y, z) == \A i \in 1..Len(s) : ~(s[i].x = x /\ s[i].y = y /\ s[i].z = z)

\* C7 as stated, with minY and maxY the least and the greatest y of a chunk:
\* Extend -Y / Extend +Y keep every old chunk and add exactly one default
\* chunk at (0, minY-1, 0) / (0, maxY+1, 0), a coordinate no old chunk had,
\* and the range of the y present grows by one on that side.
C7_ExtendFromPresent ==
    [][LET old == worldStructure.chunks
           new == worldStructure'.chunks
           minY == PresentMinY(worldStructure)
           maxY == PresentMaxY(worldStructure)
       IN  /\ op'.kind = "ExtendMinusY" =>
                 /\ AddsOneDefault(old, new, 0, minY - 1, 0)
                 /\ NoChunkAt(old, 0, minY - 1, 0)
                 /\ PresentMinY(worldStructure') = minY - 1
                 /\ PresentMaxY(worldStructure') = maxY
           /\ op'.kind = "ExtendPlusY" =>
                 /\ AddsOneDefault(old, new, 0, maxY + 1, 0)
                 /\ NoChunkAt(old, 0, maxY + 1, 0)
                 /\ PresentMinY(worldStructure') = minY
                 /\ PresentMaxY(worldStructure') = maxY + 1]_vars

\* C7 as amended, with leastY and greatestY the range the layout pass
\* computes (the least and the greatest of 0 and every y): Extend -Y /
\* Extend +Y keep every old chunk and add exactly one default chunk at
\* (0, leastY-1, 0) / (0, greatestY+1, 0), a coordinate no old chunk had, and
\* the computed range grows by one on that side and stays on the other.
C7_ExtendFromComputed ==
    [][LET old == worldStructure.chunks
           new == worldStructure'.chunks
       IN  /\ op'.kind = "ExtendMinusY" =>
                 /\ AddsOneDefault(old, new, 0, leastY - 1, 0)
                 /\ NoChunkAt(old, 0, leastY - 1, 0)
                 /\ leastY' = leastY - 1
                 /\ greatestY' = greatestY
           /\ op'.kind = "ExtendPlusY" =>
                 /\ AddsOneDefault(old, new, 0, greatestY + 1, 0)
                 /\ NoChunkAt(old, 0, greatestY + 1, 0)
                 /\ leastY' = leastY
                 /\ greatestY' = greatestY + 1]_vars

\* Extend -Y has run on a structure of several chunks, all above layer 0
C7_Witness ==
    /\ op.kind = "ExtendMinusY"
    /\ Len(worldStructure.chunks) >= 3
    /\ 0 \notin YsOf(worldStructure)
    /\ leastY = -1

\* C8: a click on the placeholder {x, z} of the window while layer chunkY is
\* shown keeps every old chunk and adds exactly one default chunk at
\* (x, chunkY, z); in the window of the next layout pass the slot of (x, z)
\* holds that chunk.
C8_PlaceholderClick ==
    [][op'.kind = "DummyOnClick" =>
          LET old == worldStructure.chunks
              new == worldStructure'.chunks
              x == op'.x
              z == op'.z
              r == xzRadius'
          IN  /\ op'.y = chunkY
              /\ Abs(x) <= xzRadius /\ Abs(z) <= xzRadius
              /\ ~IsChunk(chunks[z + xzRadius + 1][x + xzRadius + 1])
              /\ AddsOneDefault(old, new, x, chunkY, z)
              /\ chunkY' = chunkY
              /\ Abs(x) <= r /\ Abs(z) <= r
              /\ IsChunk(chunks'[z + r + 1][x + r + 1])
              /\ \E ch \in ChunkSet(worldStructure') \ ChunkSet(worldStructure) :
                    /\ chunks'[z + r + 1][x + r + 1] = ch
                    /\ IsDefaultChunkAt(ch, x, chunkY, z)]_vars

\* a placeholder off the diagonal of a layer other than 0 has been clicked,
\* in a structure that has chunks
C8_Witness ==
    /\ op.kind = "DummyOnClick"
    /\ op.y # 0
    /\ Abs(op.x) # Abs(op.z)
    /\ Len(worldStructure.chunks) >= 3
    /\ \E ch \in ChunkSet(worldStructure) : ch.x = op.x /\ ch.z = op.z /\ ch.y = op.y

\* C9: a heading's fill, handleChunkUpdate(select, transform), keeps the
\* number and the order of the chunks; a chunk select rejects is equal by
\* value to the old chunk in its place; a chunk select accepts keeps x, y, z
\* and world_structure and each of its cells is transform of the old cell.
C9_NonInterference ==
    [][op'.kind \in {"ColFill", "RowFill"} =>
          LET old == worldStructure.chunks
              new == worldStructure'.chunks
          IN  /\ Len(new) = Len(old)
              /\ \A i \in 1..Len(old) :
                    IF (op'.kind = "ColFill" /\ old[i].x = op'.x)
                       \/ (op'.kind = "RowFill" /\ old[i].z = op'.z)
                    THEN /\ new[i].x = old[i].x
                         /\ new[i].y = old[i].y
                         /\ new[i].z = old[i].z
                         /\ new[i].world_structure = old[i].world_structure
                         /\ Grid(new[i]) =
                               [cz \in 1..Len(Grid(old[i])) |->
                                   [cx \in 1..Len(Grid(old[i])[cz]) |->
                                       HeadingCell(Grid(old[i])[cz][cx], op'.e.item)]]
                    ELSE ChunkVal(new[i]) = ChunkVal(old[i])]_vars

\* a column heading has floored two chunks of its column, on different
\* layers, one of them the origin chunk, and left a chunk of another column
\* as it was
C9_Witness ==
    /\ op.kind = "ColFill"
    /\ op.e.item = "AllFloored"
    /\ \E a, b \in ChunkSet(worldStructure) :
          /\ a.x = op.x /\ b.x = op.x /\ a.y # b.y
          /\ a.world_structure = "doc"
          /\ \A cz, cx \in 1..ChunkDim :
                CellAt(a, cz, cx).floor = "Solid" /\ CellAt(b, cz, cx).floor = "Solid"
    /\ \E c \in ChunkSet(worldStructure) :
          c.x # op.x /\ Grid(c) = DefaultGrid

\* C10: an edit of the cell (cellZ, cellX) of the chunk at (x, y, z) changes
\* that cell only: the chunk's other cells, its coordinates and its
\* world_structure, and every other chunk of the list, are as they were.
C10_SingleCellEdit ==
    [][op'.kind = "CellOnChange" =>
          LET old == worldStructure.chunks
              new == worldStructure'.chunks
              i == FindIndex(old, op'.x, op'.y, op'.z)
          IN  /\ i # 0
              /\ Len(new) = Len(old)
              /\ \A j \in 1..Len(old) : j # i => ChunkVal(new[j]) = ChunkVal(old[j])
              /\ new[i].x = old[i].x /\ new[i].y = old[i].y /\ new[i].z = old[i].z
              /\ new[i].world_structure = old[i].world_structure
              /\ \A cz, cx \in 1..ChunkDim :
                    CellAt(new[i], cz, cx) =
                        IF cz = op'.cz /\ cx = op'.cx
                        THEN EditedCell(CellAt(old[i], cz, cx), op'.e)
                        ELSE CellAt(old[i], cz, cx)]_vars

\* the indices of the chunks that claim a name as origin
Owners(ws) == {i \in 1..Len(ws.chunks) : ws.chunks[i].world_structure # "None"}

\* C11: set-as-origin on the chunk at coord, with session name `name`, leaves
\* exactly one chunk with world_structure = name, the chunk at coord; every
\* other chunk has world_structure "None"; the x, y, z and cells of every
\* chunk and the number of chunks are as before.
C11_SetOrigin ==
    [][op'.kind = "onOriginChunkChangeIntent" =>
          LET old == worldStructure.chunks
              new == worldStructure'.chunks
              named == {i \in 1..Len(new) : new[i].world_structure = name}
          IN  /\ Len(new) = Len(old)
              /\ Cardinality(named) = 1
              /\ \A i \in named :
                    new[i].x = op'.x /\ new[i].y = op'.y /\ new[i].z = op'.z
              /\ \A i \in 1..Len(new) :
                    /\ i \notin named => new[i].world_structure = "None"
                    /\ new[i].x = old[i].x /\ new[i].y = old[i].y
                    /\ new[i].z = old[i].z
                    /\ Grid(new[i]) = Grid(old[i])]_vars

\* C12: in every state reached from the empty structure by the editor's
\* handlers, at most one chunk has a world_structure other than "None".
C12_SingleOwner == Cardinality(Owners(worldStructure)) <= 1

\* the coordinate and the world_structure of every chunk, in list order
OwnerTags(s) ==
    [i \in 1..Len(s) |-> <<s[i].x, s[i].y, s[i].z, s[i].world_structure>>]

\* C13: a handler other than set-as-origin leaves the world_structure of
\* every chunk it keeps as it was (an edit or a fill keeps every chunk in its
\* place, a delete keeps the chunks it does not remove, in order), and the
\* chunk an insertion adds has world_structure "None".
C13_OwnerFrame ==
    [][LET old == worldStructure.chunks
           new == worldStructure'.chunks
       IN  /\ op'.kind \in {"handleChange", "CellOnChange", "ChunkFill",
                            "ColFill", "RowFill"} =>
                 OwnerTags(new) = OwnerTags(old)
           /\ op'.kind \in {"DummyOnClick", "PlusTop", "PlusBottom", "PlusLeft",
                            "PlusRight", "ExtendMinusY", "ExtendPlusY"} =>
                 \E k \in 1..Len(new) :
                    /\ new[k].world_structure = "None"
                    /\ OwnerTags(RemoveAt(new, k)) = OwnerTags(old)
           /\ op'.kind \in {"onDeleteIntent", "ColClear", "RowClear"} =>
                 LET kept(t) == \E i \in 1..Len(new) :
                                    <<new[i].x, new[i].y, new[i].z>> = <<t[1], t[2], t[3]>>
                 IN  OwnerTags(new) = SelectSeq(OwnerTags(old), kept)]_vars

\* C14: delete-chunk at (x, y, z) yields the old chunks whose coordinate is
\* not (x, y, z), clear-column at X those with x # X and clear-row at Z those
\* with z # Z, each as it was and in the old order.
C14_DeletionIsFilter ==
    [][LET old == worldStructure.chunks
           new == worldStructure'.chunks
           notAt(ch) == ~(ch.x = op'.x /\ ch.y = op'.y /\ ch.z = op'.z)
           notCol(ch) == ch.x # op'.x
           notRow(ch) == ch.z # op'.z
       IN  /\ op'.kind = "onDeleteIntent" => new = SelectSeq(old, notAt)
           /\ op'.kind = "ColClear" => new = SelectSeq(old, notCol)
           /\ op'.kind = "RowClear" => new = SelectSeq(old, notRow)]_vars

\* a delete has removed one chunk of three and kept a chunk of the same
\* layer and a chunk of the same column on another layer
C14_Witness ==
    /\ op.kind = "onDeleteIntent"
    /\ Len(worldStructure.chunks) = 2
    /\ \E ch \in ChunkSet(worldStructure) : ch.y = op.y
    /\ \E ch \in ChunkSet(worldStructure) :
          ch.y # op.y /\ ch.x = op.x /\ ch.z = op.z

\* the document of file f as the schema hands it to the repair loop
LoadedData(f) == WorldStructureData(safeSchemaParseJSON(Files[f].text).data)

\* the last step was the install of a file's document
Installs == op'.kind = "safeSchemaParseJSONResolved" /\ op'.outcome = "installed"

Is4x4(ch) ==
    /\ Len(Grid(ch)) = 4
    /\ \A r \in 1..Len(Grid(ch)) : Len(Grid(ch)[r]) = 4

RowsAtMost4(ch) == \A r \in 1..Len(Grid(ch)) : Len(Grid(ch)[r]) <= 4

\* every cell of `was` is at its place in `now`, with its value
KeepsCells(was, now) ==
    /\ Len(Grid(now)) >= Len(Grid(was))
    /\ \A r \in 1..Len(Grid(was)) :
          /\ Len(Grid(now)[r]) >= Len(Grid(was)[r])
          /\ \A c \in 1..Len(Grid(was)[r]) : Grid(now)[r][c] = Grid(was)[r][c]

\* every position of `now` that `was` does not have holds a default cell
DefaultElsewhere(was, now) ==
    \A r \in 1..Len(Grid(now)) : \A c \in 1..Len(Grid(now)[r]) :
        (r > Len(Grid(was)) \/ c > Len(Grid(was)[r])) => Grid(now)[r][c] = newCell

\* C15: when every chunk of an accepted document has at most 4 rows and
\* every row at most 4 cells, every chunk of the structure the load installs
\* has exactly 4 rows of exactly 4 cells.
C15_InstallsGrid ==
    [][Installs =>
          \A D \in {LoadedData(op'.file).chunks}, new \in {worldStructure'.chunks} :
              (\A i \in 1..Len(D) : Len(Grid(D[i])) <= 4 /\ RowsAtMost4(D[i]))
              => \A i \in 1..Len(new) : Is4x4(new[i])]_vars

\* C16 as stated: a chunk loaded with fewer than 4 rows has 4 rows of 4 cells
\* after the repair, each original cell at its place with its value and a
\* default cell at every other place; no chunk loses or changes a cell.
C16_RepairShortChunk ==
    [][Installs =>
          \A D \in {LoadedData(op'.file).chunks}, new \in {worldStructure'.chunks} :
              /\ Len(new) = Len(D)
              /\ \A i \in 1..Len(D) :
                    /\ KeepsCells(D[i], new[i])
                    /\ Len(Grid(D[i])) < 4 =>
                          Is4x4(new[i]) /\ DefaultElsewhere(D[i], new[i])]_vars

\* C16 as amended: a chunk loaded with fewer than 4 rows, none of them longer
\* than 4 cells, has 4 rows of 4 cells after the repair, each original cell at
\* its place with its value and a default cell at every other place; a chunk
\* with fewer than 4 rows and a longer row gets 4 rows of at least 4 cells; no
\* chunk loses or changes a cell.
C16_RepairAppends ==
    [][Installs =>
          \A D \in {LoadedData(op'.file).chunks}, new \in {worldStructure'.chunks} :
              /\ Len(new) = Len(D)
              /\ \A i \in 1..Len(D) :
                    /\ KeepsCells(D[i], new[i])
                    /\ Len(Grid(D[i])) < 4 =>
                          /\ Len(Grid(new[i])) = 4
                          /\ \A r \in 1..4 : Len(Grid(new[i])[r]) >= 4
                          /\ DefaultElsewhere(D[i], new[i])
                          /\ RowsAtMost4(D[i]) => Is4x4(new[i])]_vars

\* the file with a chunk of 2 rows of 3 cells and a chunk without rows has
\* been installed
C16_Witness ==
    /\ op.kind = "safeSchemaParseJSONResolved"
    /\ op.outcome = "installed"
    /\ Files[op.file].name = "short.json"
    /\ Len(worldStructure.chunks) = 2
    /\ Is4x4(worldStructure.chunks[1])
    /\ CellAt(worldStructure.chunks[1], 2, 3) = PosCell(2, 3)
    /\ CellAt(worldStructure.chunks[1], 2, 4) = newCell
    /\ Grid(worldStructure.chunks[2]) = DefaultGrid

\* C17: the repair applied to a repaired document changes nothing, for every
\* accepted document, with rows or row lists shorter or longer than 4.
C17_RepairIdempotent ==
    [][Installs =>
          /\ Repair(Repair(LoadedData(op'.file))) = Repair(LoadedData(op'.file))
          /\ Repair(worldStructure') = worldStructure']_vars

\* the file with a short chunk that has a row of 5 cells has been installed
C17_Witness ==
    /\ op.kind = "safeSchemaParseJSONResolved"
    /\ op.outcome = "installed"
    /\ Files[op.file].name = "wide.json"
    /\ Len(Grid(worldStructure.chunks[1])[1]) = 5
    /\ Len(Grid(worldStructure.chunks[2])) = 4

\* a structure by value
StructureVal(ws) == [i \in 1..Len(ws.chunks) |-> ChunkVal(ws.chunks[i])]

\* C18: for a structure whose chunks are all 4x4, the text handleSave writes
\* is accepted by the schema, and its repaired document equals the structure
\* by value: the same chunks in the same order with the same coordinates,
\* cells and world_structure.
C18_RoundTrip ==
    (\A i \in 1..Len(worldStructure.chunks) : Is4x4(worldStructure.chunks[i])) =>
        LET ws == safeSchemaParseJSON(Stringify(worldStructure))
        IN  /\ ws.success
            /\ StructureVal(Repair(WorldStructureData(ws.data)))
                  = StructureVal(worldStructure)

\* the structure built in the editor (a chunk whose rows are one shared
\* array, an edited chunk that claims the name "") has been saved
C18_Witness ==
    /\ op.kind = "handleSave"
    /\ worldStructure = EditedStart
    /\ saved.text = Stringify(worldStructure)
    /\ \E i \in 1..Len(worldStructure.chunks) :
          Len(worldStructure.chunks[i].heapCells) = 1

\* C19: no step of a load whose file fails JSON parsing or the schema changes
\* the WorldStructure or the session's document name.
C19_FailedLoadKeepsState ==
    [][(/\ op'.kind \in {"acceptFileUploadResolved", "fileTextResolved",
                         "safeSchemaParseJSONResolved"}
        /\ op'.file # 0
        /\ ~safeSchemaParseJSON(Files[op'.file].text).success)
       => (name' = name /\ worldStructure' = worldStructure)]_vars

\* C20: a value the schema accepts has an integer x, y and z in every chunk.
C20_AcceptedIsInteger ==
    \A i \in 1..Len(loads) :
        loads[i].pc = "spa" =>
            LET v == safeParseJSON(Files[loads[i].file].text)
            IN  WorldStructureSchema(v) => IntegerCoords(v)

WallKeys == {"wall_top", "wall_bottom", "wall_left", "wall_right", "floor", "ceiling"}

\* all six wall states None, all eight door and window flags false, special
\* None, and no other field
IsDefaultCell(c) ==
    /\ DOMAIN c = WallKeys \cup BoolKeys \cup {"special"}
    /\ \A k \in WallKeys : c[k] = "None"
    /\ \A k \in BoolKeys : c[k] = FALSE
    /\ c.special = "None"

\* the handlers that call newChunk
Insertions ==
    {"DummyOnClick", "PlusTop", "PlusBottom", "PlusLeft", "PlusRight",
     "ExtendMinusY", "ExtendPlusY"}

\* the (x, y, z) the handler recorded in o passes to newChunk, with lo and hi
\* the leastY and greatestY of the layout pass it ran in
newChunkArgs(o, lo, hi) ==
    CASE o.kind = "DummyOnClick" -> <<o.x, o.y, o.z>>
      [] o.kind = "PlusTop" -> <<o.x, o.y, o.z - 1>>
      [] o.kind = "PlusBottom" -> <<o.x, o.y, o.z + 1>>
      [] o.kind = "PlusLeft" -> <<o.x - 1, o.y, o.z>>
      [] o.kind = "PlusRight" -> <<o.x + 1, o.y, o.z>>
      [] o.kind = "ExtendMinusY" -> <<0, lo - 1, 0>>
      [] o.kind = "ExtendPlusY" -> <<0, hi + 1, 0>>

\* C21: for every (x, y, z) a handler passes to it, newChunk(x, y, z) has
\* those coordinates, exactly 4 rows of exactly 4 cells, each the default cell
\* (all six wall states None, all eight door and window flags false, special
\* None), and world_structure "None"; it is the chunk the handler adds.
C21_NewChunkShape ==
    [][op'.kind \in Insertions =>
          \A a \in {newChunkArgs(op', leastY, greatestY)} :
          \A ch \in {newChunk(a[1], a[2], a[3])} : \A g \in {Grid(ch)} :
              /\ ch.x = a[1] /\ ch.y = a[2] /\ ch.z = a[3]
              /\ Len(g) = 4
              /\ \A r \in 1..Len(g) :
                    /\ Len(g[r]) = 4
                    /\ \A c \in 1..Len(g[r]) : IsDefaultCell(g[r][c])
              /\ ch.world_structure = "None"
              /\ ch \in ChunkSet(worldStructure')]_vars

\* the left plus button of a layer other than 0 has put the chunk newChunk
\* returned for (x - 1, chunkY, z) in front of the list
C21_Witness ==
    /\ op.kind = "PlusLeft"
    /\ op.y # 0
    /\ Len(worldStructure.chunks) >= 2
    /\ worldStructure.chunks[1] = newChunk(op.x - 1, op.y, op.z)
    /\ worldStructure.chunks[1].x < 0

\* C22: a Door or Window item of a side's menu acts whatever the wall state
\* of that side: it negates that side's door or window flag, leaves every
\* other field of the cell as it was, the wall state of the same side
\* included, and the same item chosen on the new cell gives the old cell.
C22_ToggleFlag ==
    [][(op'.kind = "CellOnChange" /\ op'.e.item \in {"Door", "Window"}) =>
          LET i == FindIndex(worldStructure.chunks, op'.x, op'.y, op'.z)
              flag == IF op'.e.item = "Door" THEN getCellDoorProp(op'.e.side)
                      ELSE getCellWindowProp(op'.e.side)
          IN  /\ i # 0
              /\ \A was \in {CellAt(worldStructure.chunks[i], op'.cz, op'.cx)},
                    now \in {CellAt(worldStructure'.chunks[i], op'.cz, op'.cx)} :
                    /\ DOMAIN now = DOMAIN was
                    /\ now[flag] = ~was[flag]
                    /\ \A k \in DOMAIN was \ {flag} : now[k] = was[k]
                    /\ now[getCellWallProp(op'.e.side)] = was[getCellWallProp(op'.e.side)]
                    /\ EditedCell(now, op'.e) = was]_vars

\* Door Top has been chosen on a cell whose wall_top is None: door_top is
\* true and wall_top still None
C22_Witness ==
    /\ op.kind = "CellOnChange"
    /\ op.e.item = "Door"
    /\ op.e.side = "Top"
    /\ op.cz = 1 /\ op.cx = 1
    /\ CellAt(worldStructure.chunks[1], 1, 1).wall_top = "None"
    /\ CellAt(worldStructure.chunks[1], 1, 1).door_top
    /\ CellAt(worldStructure.chunks[1], 1, 1).window_top

\* C23: over any sequence of key-down, key-up, mouse-down, mouse-move and
\* mouse-up events, a mouse move changes the pan position only while the
\* dragging flag is true.
C23_PanNeedsModifier ==
    [][(op'.kind = "onMouseMove" /\ position' # position) => dragging]_vars

\* C24: the active flag is true exactly when the last mouseenter or
\* mouseleave on the bounds element was a mouseenter; a wheel event changes
\* the scale only when active is true and leaves it as it was otherwise.
C24_ZoomNeedsPointer ==
    [][/\ op'.kind = "handleMouseEnter" => active'
       /\ op'.kind = "handleMouseLeave" => ~active'
       /\ op'.kind = "handleWheel" =>
             /\ active' = active
             /\ scale' # scale => active
             /\ ~active => scale' = scale]_vars

\* the pointer has left the bounds after a zoom and the wheel has been
\* turned outside
C24_Witness ==
    /\ op.kind = "handleWheel"
    /\ op.a # 0
    /\ ~active
    /\ scale # 10

\* C29: after a wheel event handled while active, the scale state is the
\* old scale - 0.1 for deltaY > 0, + 0.1 for deltaY < 0 and the old scale for
\* deltaY = 0, and the scale written to the element's style is the text of
\* that new scale.
C29_StyleFollowsScale ==
    [][(op'.kind = "handleWheel" /\ active) =>
          /\ op'.a > 0 => scale' = scale - 1
          /\ op'.a < 0 => scale' = scale + 1
          /\ op'.a = 0 => scale' = scale
          /\ styleScale' = toString[scale']]_vars

\* C25: in every state reached by the editing operations (cell items, chunk
\* fills, heading fills and clears, insertions, extensions, deletes,
\* set-origin) from a structure whose chunks all have 4 rows of 4 cells,
\* every chunk has exactly 4 rows of exactly 4 cells.
C25_GridShape ==
    \A i \in 1..Len(worldStructure.chunks) :
        \A g \in {Grid(worldStructure.chunks[i])} :
            Len(g) = 4 /\ \A r \in 1..Len(g) : Len(g[r]) = 4

\* a cell item has replaced a cell of a chunk fresh from newChunk, whose four
\* rows were one array, next to a chunk read from a document
C25_Witness ==
    /\ op.kind = "CellOnChange"
    /\ \E a, b \in ChunkSet(worldStructure) :
          /\ a.x = op.x /\ a.y = op.y /\ a.z = op.z
          /\ CellAt(a, op.cz, op.cx) # newCell
          /\ Len(a.heapRows) = 2
          /\ Len(a.heapCells) = 2
          /\ Len(b.heapRows) = 4

\* C28: in every reachable state the layer shown, chunkY, lies in
\* [leastY, greatestY]: it is one of the values the layer selector offers.
C28_LayerSelectable ==
    /\ leastY <= chunkY /\ chunkY <= greatestY
    /\ \E i \in 1..Len(yChoices) : yChoices[i] = chunkY

\* the layers a document may have, and one beyond on each side
Layers == (-MaxY - 1)..(MaxY + 1)

\* C30: a column or row heading's Clear removes, and its fill maps, every
\* chunk whose x (column) or z (row) is the heading's, on every layer, and no
\* other chunk; the structure it produces is the one the same heading item
\* produces with any other layer shown.
C30_HeadingAnyLayer ==
    [][op'.kind \in {"ColClear", "ColFill", "RowClear", "RowFill"} =>
          \A old \in {worldStructure.chunks}, new \in {worldStructure'.chunks} :
             LET hit(ch) == IF op'.kind \in {"ColClear", "ColFill"}
                            THEN ch.x = op'.x ELSE ch.z = op'.z
                 miss(ch) == ~hit(ch)
             IN  /\ op'.kind \in {"ColClear", "RowClear"} => new = SelectSeq(old, miss)
                 /\ op'.kind \in {"ColFill", "RowFill"} =>
                       /\ Len(new) = Len(old)
                       /\ \A i \in 1..Len(old) :
                             \A was \in {ChunkVal(old[i])}, now \in {ChunkVal(new[i])} :
                                IF hit(old[i])
                                THEN now = [was EXCEPT !.cells =
                                               [cz \in 1..Len(was.cells) |->
                                                  [cx \in 1..Len(was.cells[cz]) |->
                                                     HeadingCell(was.cells[cz][cx],
                                                                 op'.e.item)]]]
                                ELSE now = was
                 /\ \A p \in {HeadingPredicate(worldStructure, y, op') : y \in Layers} :
                       HeadingOn(worldStructure, p, op') = worldStructure']_vars

\* with a layer other than 0 shown, a row heading has floored a chunk of
\* another layer, in a row that has no chunk on the layer shown
C30_Witness ==
    /\ op.kind = "RowFill"
    /\ op.e.item = "AllFloored"
    /\ chunkY # 0
    /\ \A ch \in ChunkSet(worldStructure) : ch.z = op.z => ch.y # chunkY
    /\ \E ch \in ChunkSet(worldStructure) :
          /\ ch.z = op.z
          /\ \A cz, cx \in 1..ChunkDim : CellAt(ch, cz, cx).floor = "Solid"
    /\ \E ch \in ChunkSet(worldStructure) : ch.y = chunkY

\* C26: whenever no load is pending, the session name is the suffix-stripped
\* name of the file whose content was installed last.
C26_NameMatchesContent ==
    (loads = <<>> /\ installed # 0) =>
        name = stripSuffixIfExists(Files[installed].name)

\* C27: the structure a load installs is the repaired document of its file,
\* whatever the page held before: it has the file's chunks, in the file's
\* order, with their coordinates, names and cells, and nothing of the
\* structure that was edited while the load was under way.
C27_InstallFromFileOnly ==
    [][Installs =>
          \A D \in {LoadedData(op'.file).chunks}, new \in {worldStructure'.chunks} :
              /\ worldStructure' = Repair(LoadedData(op'.file))
              /\ OwnerTags(new) = OwnerTags(D)
              /\ \A i \in 1..Len(D) : KeepsCells(D[i], new[i])]_vars

\* the load that had its file at the start has installed it; in between the
\* editor changed the structure, and Save wrote the changed structure
C27_Witness ==
    /\ op.kind = "safeSchemaParseJSONResolved"
    /\ op.outcome = "installed"
    /\ loadCount = MaxLoads - 1
    /\ steps = MaxSteps
    /\ saved # NoSave
    /\ saved.text # Stringify(EditedStart)
    /\ saved.text # Stringify(worldStructure)
    /\ worldStructure = Repair(LoadedData(op.file))

====
